---- MODULE Spec2Model ----
(***************************************************************************)
(* Model of schedule() in src/sweep.py: the poll loop that binds queued    *)
(* jobs to idle GPU slots, launches one process per job, reaps exited      *)
(* processes and accumulates the failure list.                             *)
(*                                                                         *)
(* The control thread is modelled at the granularity of one iteration of   *)
(* the inner `for gpu, process in gpu_status.items()` loop.  The launched  *)
(* processes are the environment: they exit on their own, at any time,     *)
(* with any exit code.                                                     *)
(***************************************************************************)
EXTENDS Integers, Sequences, FiniteSets, TLC

\* ---------------------------------------------------------------- bounds
MaxJobs == 3        \* longest job list
MaxGpus == 2        \* longest gpu_ids list; device ids are 0 .. MaxGpus-1
MaxPreDir == 1      \* run_1 .. run_<MaxPreDir> may exist before the call
MaxVals == 2        \* longest value list of one argument string

\* ---------------------------------------------------------------- inputs
\* gpu_status[gpu] is None: no handle (handles count from 1).
None == 0

\* Popen.returncode is None: not an exit status (those lie in -255 .. 255).
NoCode == 256

\* No exception has left schedule().
NoExc == [type |-> "None"]

\* What a command does once handed to subprocess.Popen:
\*   "ok"   the executable spawns and the process exits on its own
\*   "hang" the executable spawns and the process never exits
\*   "bad"  the executable cannot be spawned: Popen raises
CmdKinds == {"ok", "hang", "bad"}

\* Values of Popen.returncode after exit (negative: killed by a signal).
ExitCodes == {0, 1, -9}

DeviceIds == 0 .. (MaxGpus - 1)

SeqsUpTo(S, lo, hi) == UNION {[1 .. n -> S] : n \in lo .. hi}

VARIABLES
    gpu_ids,        \* argument: list of device ids (may repeat an id)
    jobs,           \* argument: list of commands (never modified)
    gpu_status,     \* dict: device id -> None | handle of the Popen object
    job_queue,      \* list of not yet dispatched jobs
    failed_jobs,    \* list of failure records
    run_count,      \* next run index
    pc,             \* position of the control thread
    slot,           \* position of the for loop in gpu_status.items()
    procs,          \* every Popen object created so far, by handle
    run_dirs,       \* file system: the k for which sweep_dir/run_<k> exists
    output_log,     \* file system: k -> who wrote run_<k>/output.log
    pre_dirs,       \* the run directories that existed before the call
    exc,            \* the exception that left schedule(), or NoExc
    freed,          \* history: the slots released during the current pass
    \* main() and generate_cmd_combinations()
    args,           \* the parsed command line: script, args, gpus, dry_run
    mpc,            \* position of main()
    arg_i,          \* generate_cmd_combinations: next element of args_list
    arg_dict,       \* generate_cmd_combinations: key -> values, in
                    \* insertion order, as a list of [key, values]
    job_cmds,       \* the command list, once generated
    stdout,         \* the commands printed
    sweep_dir,      \* file system: whether output_dir/sweep_<timestamp> exists
    sweep_json,     \* file system: the contents of sweep.json, if written
    sched_call      \* the arguments of the call of schedule(), if made

schedvars == <<gpu_ids, jobs, gpu_status, job_queue, failed_jobs, run_count,
               pc, slot, procs, run_dirs, output_log, pre_dirs, exc, freed>>

mainvars == <<args, mpc, arg_i, arg_dict, job_cmds, stdout, sweep_dir,
              sweep_json, sched_call>>

vars == <<gpu_ids, jobs, gpu_status, job_queue, failed_jobs, run_count, pc,
          slot, procs, run_dirs, output_log, pre_dirs, exc, freed,
          args, mpc, arg_i, arg_dict, job_cmds, stdout, sweep_dir,
          sweep_json, sched_call>>

\* ------------------------------------------------------------- helpers

\* dict comprehension {gpu: None for gpu in gpu_ids}: the keys are the
\* distinct ids, in order of first occurrence.
RECURSIVE DictKeys(_)
DictKeys(s) ==
    IF s = <<>> THEN <<>>
    ELSE LET init == DictKeys(SubSeq(s, 1, Len(s) - 1))
             last == s[Len(s)]
         IN  IF \E i \in 1 .. Len(init) : init[i] = last
             THEN init
             ELSE Append(init, last)

\* A dict that iterated in reverse insertion order.
SlotsReversed ==
    [i \in 1 .. Len(DictKeys(gpu_ids)) |->
        DictKeys(gpu_ids)[Len(DictKeys(gpu_ids)) + 1 - i]]
Slots == DictKeys(gpu_ids)

\* os.path.join(sweep_dir, f"run_{run_count}")
RunDir(k) == <<"run_", k>>

Range(s) == {s[i] : i \in 1 .. Len(s)}

\* any(gpu_status.values()): a Popen object is truthy, None is not.
AnyBusy == \E g \in DOMAIN gpu_status : gpu_status[g] # None

\* while job_queue or any(gpu_status.values())
LoopCondQueueOnly == job_queue # <<>>
LoopCondDoWhile == pc = "while"
LoopCond == job_queue # <<>> \/ AnyBusy

\* `process is None` for the value the for loop read from the dict
SlotIdleAlways(g) == TRUE
SlotIdleInverted(g) == gpu_status[g] # None
SlotIdle(g) == gpu_status[g] = None

\* process.poll() is not None: non-blocking, true once the process exited
PollDoneAlways(h) == TRUE
PollDone(h) == procs[h].state = "exited"

\* process.returncode != 0
IsFailurePositive(rc) == rc > 0
IsFailure(rc) == rc # 0

\* run_count += 1
NextRunCountStuck(k) == k
NextRunCount(k) == k + 1

\* cmd = job_queue.pop(0): the head of the queue and what is left of it
PopLast(q) == [item |-> q[Len(q)], rest |-> SubSeq(q, 1, Len(q) - 1)]
Pop(q) == [item |-> q[1], rest |-> Tail(q)]

\* ------------------------------------------------------------- initial
\* schedule() called on its own: main() is not part of the run.
MainNotRunning ==
    /\ args = [script |-> <<>>, args |-> <<>>, gpus |-> <<>>, dry_run |-> FALSE]
    /\ mpc = "none"
    /\ arg_i = 1
    /\ arg_dict = <<>>
    /\ job_cmds = <<>>
    /\ stdout = <<>>
    /\ sweep_dir = FALSE
    /\ sweep_json = <<>>
    /\ sched_call = <<>>

Init ==
    /\ MainNotRunning
    /\ gpu_ids \in SeqsUpTo(DeviceIds, 1, MaxGpus)
    /\ jobs \in SeqsUpTo(CmdKinds, 0, MaxJobs)
    /\ pre_dirs \in SUBSET (1 .. MaxPreDir)
    /\ gpu_status = [g \in Range(gpu_ids) |-> None]
    /\ job_queue = [i \in 1 .. Len(jobs) |-> [job |-> i, cmd |-> jobs[i]]]
    /\ failed_jobs = <<>>
    /\ run_count = 1
    /\ pc = "while"
    /\ slot = 1
    /\ procs = <<>>
    /\ run_dirs = pre_dirs
    /\ output_log = [k \in pre_dirs |-> "old"]
    /\ exc = NoExc
    /\ freed = {}

\* ------------------------------------------------------------- actions

\* line 96: the loop test; line 140: return failed_jobs
WhileTest ==
    /\ pc = "while"
    /\ IF LoopCond
       THEN pc' = "for" /\ slot' = 1
       ELSE pc' = "return" /\ slot' = slot
    /\ UNCHANGED <<gpu_ids, jobs, gpu_status, job_queue, failed_jobs,
                   run_count, procs, run_dirs, output_log, pre_dirs, exc,
                   freed>>
    /\ UNCHANGED mainvars

\* The for loop moves to the next dict item, or falls through to the sleep.
Advance ==
    IF slot < Len(Slots)
    THEN pc' = "for" /\ slot' = slot + 1
    ELSE pc' = "sleep" /\ slot' = slot

\* makedirs(run_dir, exist_ok=True) and open(run_dir/output.log, "w"):
\* the directory is created or reused, the log created or truncated.
PrepareRunDir(k) ==
    /\ run_dirs' = run_dirs \cup {k}
    /\ output_log' = [d \in run_dirs \cup {k} |->
                        IF d = k THEN "new" ELSE output_log[d]]

\* lines 98-117: the slot is idle and a job is queued; Popen succeeds.
Launch ==
    /\ pc = "for"
    /\ LET gpu == Slots[slot]
           head == Pop(job_queue).item
           h == Len(procs) + 1
       IN  /\ SlotIdle(gpu) /\ job_queue # <<>>
           /\ head.cmd # "bad"
           /\ job_queue' = Pop(job_queue).rest
           /\ PrepareRunDir(run_count)
           /\ procs' = Append(procs,
                  [gpu |-> gpu, run |-> run_count, run_dir |-> RunDir(run_count),
                   cmd |-> head.cmd, job |-> head.job,
                   state |-> "running", returncode |-> NoCode, reaped |-> FALSE])
           /\ gpu_status' = [gpu_status EXCEPT ![gpu] = h]
           /\ run_count' = NextRunCount(run_count)
    /\ Advance
    /\ UNCHANGED <<gpu_ids, jobs, failed_jobs, pre_dirs, exc, freed>>
    /\ UNCHANGED mainvars

\* lines 98-111: the slot is idle and a job is queued; Popen raises
\* (FileNotFoundError, PermissionError).  Nothing catches it: the
\* exception leaves schedule() after the pop, the makedirs and the open.
LaunchRaises ==
    /\ pc = "for"
    /\ LET gpu == Slots[slot]
           head == Pop(job_queue).item
       IN  /\ SlotIdle(gpu) /\ job_queue # <<>>
           /\ head.cmd = "bad"
           /\ job_queue' = Pop(job_queue).rest
           /\ PrepareRunDir(run_count)
           /\ exc' = [type |-> "OSError", job |-> head.job, gpu |-> gpu,
                      run |-> run_count]
    /\ pc' = "raised"
    /\ UNCHANGED <<gpu_ids, jobs, gpu_status, failed_jobs, run_count, slot,
                   procs, pre_dirs, freed>>
    /\ UNCHANGED mainvars

\* lines 126-133: the record appended for the process the slot holds; its
\* run_dir and cmd are the attributes stored on that Popen object (the cmd
\* is the list object taken from the queue: which job, and what it runs).
FailureRecordLatest(gpu, h) ==
    [gpu |-> gpu, run_dir |-> RunDir(run_count - 1),
     cmd |-> [job |-> procs[Len(procs)].job, cmd |-> procs[Len(procs)].cmd],
     exit_code |-> procs[h].returncode]
FailureRecord(gpu, h) ==
    [gpu |-> gpu, run_dir |-> procs[h].run_dir,
     cmd |-> [job |-> procs[h].job, cmd |-> procs[h].cmd],
     exit_code |-> procs[h].returncode]

\* lines 118-136: the slot holds a process and poll() reports its exit.
Reap ==
    /\ pc = "for"
    /\ LET gpu == Slots[slot]
           h == gpu_status[gpu]
       IN  /\ ~(SlotIdle(gpu) /\ job_queue # <<>>)
           /\ h # None /\ PollDone(h)
           /\ failed_jobs' =
                 IF IsFailure(procs[h].returncode)
                 THEN Append(failed_jobs, FailureRecord(gpu, h))
                 ELSE failed_jobs
           /\ gpu_status' = [gpu_status EXCEPT ![gpu] = None]
           /\ procs' = [procs EXCEPT ![h].reaped = TRUE]
           /\ freed' = freed \cup {gpu}
    /\ Advance
    /\ UNCHANGED <<gpu_ids, jobs, job_queue, run_count, run_dirs, output_log,
                   pre_dirs, exc>>
    /\ UNCHANGED mainvars

\* Neither branch of the if/elif applies: idle with an empty queue, or
\* busy with a process that is still running.
Skip ==
    /\ pc = "for"
    /\ LET gpu == Slots[slot]
           h == gpu_status[gpu]
       IN  /\ ~(SlotIdle(gpu) /\ job_queue # <<>>)
           /\ ~(h # None /\ PollDone(h))
    /\ Advance
    /\ UNCHANGED <<gpu_ids, jobs, gpu_status, job_queue, failed_jobs,
                   run_count, procs, run_dirs, output_log, pre_dirs, exc,
                   freed>>
    /\ UNCHANGED mainvars

\* line 138: time.sleep(1); the pass over the slots is over.
Sleep ==
    /\ pc = "sleep"
    /\ pc' = "while"
    /\ freed' = {}
    /\ UNCHANGED <<gpu_ids, jobs, gpu_status, job_queue, failed_jobs,
                   run_count, slot, procs, run_dirs, output_log, pre_dirs, exc>>
    /\ UNCHANGED mainvars

\* Environment: a running process exits on its own with some exit code.
ProcExit(h) ==
    /\ h \in DOMAIN procs
    /\ procs[h].state = "running"
    /\ procs[h].cmd # "hang"
    /\ \E rc \in ExitCodes :
          procs' = [procs EXCEPT ![h].state = "exited", ![h].returncode = rc]
    /\ UNCHANGED <<gpu_ids, jobs, gpu_status, job_queue, failed_jobs,
                   run_count, pc, slot, run_dirs, output_log, pre_dirs, exc,
                   freed>>
    /\ UNCHANGED mainvars

ControlStep == WhileTest \/ Launch \/ LaunchRaises \/ Reap \/ Skip \/ Sleep

Next ==
    \/ WhileTest
    \/ Launch
    \/ LaunchRaises
    \/ Reap
    \/ Skip
    \/ Sleep
    \/ \E h \in 1 .. MaxJobs : ProcExit(h)

Spec == Init /\ [][Next]_vars

\* The control thread always takes its next step (poll() does not block,
\* sleep(1) returns), and a process that is going to exit does exit.
FairSpec ==
    /\ Spec
    /\ WF_vars(ControlStep)
    /\ \A h \in 1 .. MaxJobs : WF_vars(ProcExit(h))

\* ======================================================================
\* main() and generate_cmd_combinations()
\*
\* A string is the sequence of its pieces: the separators "=" and "," and
\* the words between them.  A token of a command is a string; a command
\* is a list of tokens.
\* ======================================================================

KeyWords == {"lr", "flag"}
ValueWords == {"1", "true", "TRUE", "False"}

\* str.lower() on one piece of a string
LowerWord(w) ==
    CASE w = "TRUE" -> "true"
      [] w = "False" -> "false"
      [] OTHER -> w

\* str.lower()
Lower(str) == [i \in 1 .. Len(str) |-> LowerWord(str[i])]

\* str.split(sep): always at least one piece, "" between two separators
RECURSIVE Split(_, _)
Split(str, sep) ==
    IF str = <<>> THEN << <<>> >>
    ELSE LET rest == Split(Tail(str), sep)
         IN  IF Head(str) = sep
             THEN << <<>> >> \o rest
             ELSE << <<Head(str)>> \o rest[1] >> \o Tail(rest)

\* ",".join(values)
RECURSIVE JoinComma(_)
JoinComma(values) ==
    IF Len(values) = 1 THEN values[1]
    ELSE values[1] \o <<",">> \o JoinComma(Tail(values))

\* The argument strings the command line is drawn from: key=v1,..,vn, and
\* the malformed ones: no "=", two "=", nothing after the "=".
WellFormedArgs ==
    {<<k>> \o <<"=">> \o JoinComma([i \in 1 .. n |-> <<vs[i]>>]) :
        k \in KeyWords, n \in 1 .. MaxVals, vs \in [1 .. MaxVals -> ValueWords]}
MalformedArgs ==
    {<<"lr">>, <<"lr", "=", "1", "=", "1">>, <<"lr", "=">>}
ArgStrings == WellFormedArgs \cup MalformedArgs

\* arg_dict[key] = values: a new key goes last, a known key keeps its place
DictSet(d, key, values) ==
    IF \E i \in 1 .. Len(d) : d[i].key = key
    THEN [i \in 1 .. Len(d) |->
            IF d[i].key = key THEN [key |-> key, values |-> values] ELSE d[i]]
    ELSE Append(d, [key |-> key, values |-> values])

\* [x + [y] for x in result for y in pool]
Extend(result, pool) ==
    [i \in 1 .. (Len(result) * Len(pool)) |->
        Append(result[((i - 1) \div Len(pool)) + 1],
               pool[((i - 1) % Len(pool)) + 1])]

\* A product in which the first pool varies fastest.
ExtendFirstFastest(result, pool) ==
    [i \in 1 .. (Len(result) * Len(pool)) |->
        Append(result[((i - 1) % Len(result)) + 1],
               pool[((i - 1) \div Len(result)) + 1])]

\* One step of itertools.product: the tuples so far, each extended by each
\* element of the next pool.
ProductStep(result, pool) == Extend(result, pool)

\* list(itertools.product(*arg_dict.values()))
RECURSIVE Product(_)
Product(pools) ==
    IF pools = <<>> THEN << <<>> >>
    ELSE ProductStep(Product(SubSeq(pools, 1, Len(pools) - 1)),
                     pools[Len(pools)])

\* value.lower() == "true", value.lower() == "false"
IsTrueCaseSensitive(value) == value = <<"true">>
IsTrue(value) == Lower(value) = <<"true">>
IsFalse(value) == Lower(value) = <<"false">>

\* lines 66-71: the tokens one key adds to a command
FlagTokens(key, value) ==
    IF IsTrue(value) THEN << <<"--">> \o key >>
    ELSE IF IsFalse(value) THEN << <<"--no-">> \o key >>
    ELSE << <<"--">> \o key, value >>

\* lines 64-72: cmd = ["python", script] + the tokens of every key
RECURSIVE CmdTokens(_, _)
CmdTokens(d, combination) ==
    IF d = <<>> THEN <<>>
    ELSE CmdTokens(SubSeq(d, 1, Len(d) - 1),
                   SubSeq(combination, 1, Len(d) - 1))
            \o FlagTokens(d[Len(d)].key, combination[Len(d)])

\* lines 59-74
CmdList(script, d) ==
    LET combinations == Product([i \in 1 .. Len(d) |-> d[i].values])
    IN  [c \in 1 .. Len(combinations) |->
            << <<"python">>, script >> \o CmdTokens(d, combinations[c])]

\* if not args.dry_run
ShouldRunAlways == TRUE
ShouldRun == ~args.dry_run

\* schedule() is not running: its state is that of no call.
ScheduleNotRunning ==
    /\ gpu_ids = <<>>
    /\ jobs = <<>>
    /\ gpu_status = <<>>
    /\ job_queue = <<>>
    /\ failed_jobs = <<>>
    /\ run_count = 1
    /\ pc = "none"
    /\ slot = 1
    /\ procs = <<>>
    /\ run_dirs = {}
    /\ output_log = <<>>
    /\ pre_dirs = {}
    /\ exc = NoExc
    /\ freed = {}

\* main() after parse_args()
MainInit ==
    /\ ScheduleNotRunning
    /\ args \in [script : {<<"train.py">>},
                 args : SeqsUpTo(ArgStrings, 1, Cardinality(KeyWords)),
                 gpus : {<<>>, <<"0", ",", "1">>},
                 dry_run : BOOLEAN]
    /\ mpc = "generate"
    /\ arg_i = 1
    /\ arg_dict = <<>>
    /\ job_cmds = <<>>
    /\ stdout = <<>>
    /\ sweep_dir = FALSE
    /\ sweep_json = <<>>
    /\ sched_call = <<>>

\* lines 149-151: args.gpus.split(",") if args.gpus else ["0"]
MainGpuIds == IF args.gpus # <<>> THEN Split(args.gpus, ",") ELSE << <<"0">> >>

\* lines 55-57: one iteration of `for arg in args_list`.  The unpacking
\* key, values = arg.split("=") raises ValueError unless there are
\* exactly two pieces; nothing catches it.
GenParseArg ==
    /\ mpc = "generate"
    /\ arg_i <= Len(args.args)
    /\ LET pieces == Split(args.args[arg_i], "=")
       IN  IF Len(pieces) = 2
           THEN /\ arg_dict' = DictSet(arg_dict, pieces[1], Split(pieces[2], ","))
                /\ arg_i' = arg_i + 1
                /\ mpc' = mpc
           ELSE /\ mpc' = "raised"
                /\ UNCHANGED <<arg_dict, arg_i>>
    /\ UNCHANGED <<args, job_cmds, stdout, sweep_dir, sweep_json, sched_call>>
    /\ UNCHANGED schedvars

\* lines 59-74 and 152: the command list is built and returned to main().
GenExpand ==
    /\ mpc = "generate"
    /\ arg_i > Len(args.args)
    /\ job_cmds' = CmdList(args.script, arg_dict)
    /\ mpc' = "print"
    /\ UNCHANGED <<args, arg_i, arg_dict, stdout, sweep_dir, sweep_json,
                   sched_call>>
    /\ UNCHANGED schedvars

\* lines 154-160: the commands are printed; a dry run ends here.
PrintCmds ==
    /\ mpc = "print"
    /\ stdout' = job_cmds
    /\ mpc' = IF ShouldRun THEN "mkdir" ELSE "end"
    /\ UNCHANGED <<args, arg_i, arg_dict, job_cmds, sweep_dir, sweep_json,
                   sched_call>>
    /\ UNCHANGED schedvars

\* lines 162-164: os.makedirs(sweep_dir, exist_ok=True)
MakeSweepDir ==
    /\ mpc = "mkdir"
    /\ sweep_dir' = TRUE
    /\ mpc' = "json"
    /\ UNCHANGED <<args, arg_i, arg_dict, job_cmds, stdout, sweep_json,
                   sched_call>>
    /\ UNCHANGED schedvars

\* lines 167-177: sweep.json
WriteSweepJson ==
    /\ mpc = "json"
    /\ sweep_json' = << [script |-> args.script, args |-> args.args,
                         gpus |-> args.gpus, job_count |-> Len(job_cmds),
                         jobs |-> job_cmds] >>
    /\ mpc' = "call"
    /\ UNCHANGED <<args, arg_i, arg_dict, job_cmds, stdout, sweep_dir,
                   sched_call>>
    /\ UNCHANGED schedvars

\* line 179: failed_jobs = schedule(gpu_ids, job_cmds, sweep_dir).  What
\* the call does is the schedule() part of this module.
CallSchedule ==
    /\ mpc = "call"
    /\ sched_call' = << [gpu_ids |-> MainGpuIds, jobs |-> job_cmds] >>
    /\ mpc' = "schedule"
    /\ UNCHANGED <<args, arg_i, arg_dict, job_cmds, stdout, sweep_dir,
                   sweep_json>>
    /\ UNCHANGED schedvars

MainNext ==
    \/ GenParseArg
    \/ GenExpand
    \/ PrintCmds
    \/ MakeSweepDir
    \/ WriteSweepJson
    \/ CallSchedule

MainSpec == MainInit /\ [][MainNext]_vars

\* ------------------------------------------------- derived state

Handles == DOMAIN procs

\* Launched and not yet reaped by the control thread.
Unreaped == {h \in Handles : ~procs[h].reaped}

Occupied == {g \in DOMAIN gpu_status : gpu_status[g] # None}

QueuedAt(j) == {i \in DOMAIN job_queue : job_queue[i].job = j}

RunningIn(j) == {g \in Occupied : procs[gpu_status[g]].job = j}

FinishedAs(j) == {h \in Handles : procs[h].job = j /\ procs[h].reaped}

LaunchedAs(j) == {h \in Handles : procs[h].job = j}

RecordsOf(h) ==
    {i \in DOMAIN failed_jobs : failed_jobs[i].run_dir = procs[h].run_dir}

\* Some slot holds a process that never exits.
HungHeld ==
    \E h \in Handles : procs[h].cmd = "hang" /\ gpu_status[procs[h].gpu] = h

\* ------------------------------------------------------------ C1
\* C1: at every point, each device has at most one launched and not yet
\* reaped process bound to it, that process is the one its slot holds (a
\* launch happens only on an idle slot), and the number of such processes
\* never exceeds the number of slots, nor the length of gpu_ids when it
\* repeats an id.
C1_OnePerDevice ==
    /\ \A g \in DeviceIds :
          Cardinality({h \in Unreaped : procs[h].gpu = g}) <= 1
    /\ \A h \in Unreaped : gpu_status[procs[h].gpu] = h
    /\ Cardinality(Unreaped) <= Len(Slots)
    /\ Len(Slots) <= Len(gpu_ids)

\* gpu_ids repeats an id, its one slot is busy and a job is waiting for it.
C1_Witness ==
    /\ Len(gpu_ids) > Len(Slots)
    /\ Unreaped # {}
    /\ job_queue # <<>>
    /\ pc = "sleep"

\* ------------------------------------------------------------ C2
\* C2: in every state each job of the input list is in exactly one of:
\* queued (once), running in exactly one slot, finished; so that
\* |queue| + occupied slots + finished runs = number of jobs.
C2_JobConservation ==
    /\ \A j \in 1 .. Len(jobs) :
          /\ Cardinality(QueuedAt(j)) + Cardinality(RunningIn(j))
               + Cardinality(FinishedAs(j)) = 1
    /\ Len(job_queue) + Cardinality(Occupied)
         + Cardinality({h \in Handles : procs[h].reaped}) = Len(jobs)

\* ------------------------------------------------------------ C3
\* C3: for a non-empty job list whose processes all exit, under fair
\* execution schedule() eventually returns, every job having been launched.
C3_DispatchAllAndReturn ==
    (jobs # <<>> /\ \A j \in 1 .. Len(jobs) : jobs[j] # "hang")
        => <>(pc = "return" /\ \A j \in 1 .. Len(jobs) : LaunchedAs(j) # {})

\* ------------------------------------------------------------ C4
\* C4: the run indices are assigned in strictly increasing order (so none
\* is used twice), and when schedule() returns they are exactly 1..N for
\* N jobs, the processes ran in run_1..run_N and those are the run
\* directories the call prepared.
C4_RunIndices ==
    /\ \A h1, h2 \in Handles : h1 < h2 => procs[h1].run < procs[h2].run
    /\ pc = "return" =>
          /\ {procs[h].run : h \in Handles} = 1 .. Len(jobs)
          /\ {procs[h].run_dir : h \in Handles}
               = {RunDir(k) : k \in 1 .. Len(jobs)}
          /\ {k \in run_dirs : output_log[k] = "new"} = 1 .. Len(jobs)
          /\ run_dirs = pre_dirs \cup (1 .. Len(jobs))

\* schedule() has returned after as many runs as the bound allows.
C4_Witness ==
    /\ pc = "return"
    /\ Len(procs) = MaxJobs

\* ------------------------------------------------------------ C5
\* C5: a run that exited with 0 is in no failure record; a run that was
\* found exited with a non-zero code is in exactly one record, carrying
\* that code; a run not yet reaped is in none.  On return every run is
\* reaped, so the returned list is empty iff every run exited with 0.
C5_FailureRecords ==
    /\ \A h \in Handles :
          IF procs[h].reaped /\ procs[h].returncode # 0
          THEN /\ Cardinality(RecordsOf(h)) = 1
               /\ \A i \in RecordsOf(h) :
                     failed_jobs[i].exit_code = procs[h].returncode
          ELSE RecordsOf(h) = {}
    /\ pc = "return" =>
          /\ \A h \in Handles : procs[h].reaped /\ procs[h].returncode \in ExitCodes
          /\ (failed_jobs = <<>>) <=> (\A h \in Handles : procs[h].returncode = 0)

\* schedule() has returned; one run exited 0, one was killed by a signal.
C5_Witness ==
    /\ pc = "return"
    /\ \E h \in Handles : procs[h].returncode = 0
    /\ \E h \in Handles : procs[h].returncode < 0
    /\ Len(failed_jobs) = 1

\* ------------------------------------------------------------ C6
\* C6: a job whose process cannot be started does not abort schedule():
\* the call is never left by the launch error, and when it returns every
\* such job has its failure record.
C6_LaunchErrorIsLocal ==
    /\ pc # "raised"
    /\ exc = NoExc
    /\ pc = "return" =>
          \A j \in 1 .. Len(jobs) :
             jobs[j] = "bad" => \E i \in DOMAIN failed_jobs :
                                    failed_jobs[i].cmd.cmd = "bad"

\* ------------------------------------------------------------ C7
\* C7: a run directory that existed before the call is never used for a
\* run: no process runs in it and its output.log is not overwritten.
C7_ExistingRunDirAborts ==
    /\ \A h \in Handles : procs[h].run \notin pre_dirs
    /\ \A k \in pre_dirs : output_log[k] = "old"

\* ------------------------------------------------------------ C8
\* C8: with one job that never exits and at least two slots, while that
\* job's process holds a slot every process that exits is eventually
\* reaped and every job still queued is eventually dispatched.
C8_HungJobDoesNotStall ==
    (/\ Cardinality({j \in 1 .. Len(jobs) : jobs[j] = "hang"}) = 1
     /\ Len(Slots) >= 2)
        => /\ \A h \in 1 .. MaxJobs :
                 (HungHeld /\ h \in Handles /\ procs[h].state = "exited")
                    ~> (h \in Handles /\ procs[h].reaped)
           /\ \A j \in 1 .. MaxJobs :
                 (HungHeld /\ QueuedAt(j) # {}) ~> (LaunchedAs(j) # {})

\* ------------------------------------------------------------ C9
\* C9: schedule() has returned only if the queue is empty and every slot
\* is idle, and a loop test leads to the return exactly when it finds the
\* queue empty and every slot idle.
C9_ExitIffDrained ==
    /\ [](pc = "return" =>
            job_queue = <<>> /\ \A g \in DOMAIN gpu_status : gpu_status[g] = None)
    /\ [][(pc = "while" /\ pc' # "while") =>
            (pc' = "return" <=>
               (job_queue = <<>> /\ \A g \in DOMAIN gpu_status : gpu_status[g] = None))]_vars

\* schedule() has returned after running jobs on two slots.
C9_Witness ==
    /\ pc = "return"
    /\ Len(Slots) >= 2
    /\ Len(procs) >= 2

\* ----------------------------------------------------------- C10
\* C10: a slot becomes idle only when the process it holds has exited; a
\* process that never exits stays running in its slot, and schedule() has
\* not returned while any process is running.
C10_NoEarlyTermination ==
    /\ [][\A g \in DOMAIN gpu_status :
            (gpu_status[g] # None /\ gpu_status'[g] = None)
               => procs[gpu_status[g]].state = "exited"]_vars
    /\ [](\A h \in Handles :
            /\ procs[h].cmd = "hang" =>
                  procs[h].state = "running" /\ gpu_status[procs[h].gpu] = h
            /\ procs[h].state = "running" => pc # "return")

\* A job that never exits still holds its slot after every other job has
\* been reaped and the queue has drained; the loop goes on polling.
C10_Witness ==
    /\ pc = "sleep"
    /\ job_queue = <<>>
    /\ Len(procs) >= 2
    /\ \E h \in Handles : procs[h].cmd = "hang" /\ gpu_status[procs[h].gpu] = h
    /\ \A h \in Handles : procs[h].cmd # "hang" => procs[h].reaped

\* ----------------------------------------------------------- C11
\* Some run has been found exited with a non-zero code.
SomeRunFailed == \E h \in Handles : procs[h].reaped /\ procs[h].returncode # 0

\* C11: a run found exited with a non-zero code has left its slot, its job
\* is not back in the queue and has been launched once only; and, when no
\* job hangs, every spawnable job still queued after such a failure is
\* eventually dispatched (the sweep goes on).
C11_RuntimeFailureIsLocal ==
    /\ [](\A h \in Handles :
            (procs[h].reaped /\ procs[h].returncode # 0) =>
               /\ gpu_status[procs[h].gpu] # h
               /\ QueuedAt(procs[h].job) = {}
               /\ Cardinality(LaunchedAs(procs[h].job)) = 1)
    /\ (\A j \in 1 .. Len(jobs) : jobs[j] # "hang") =>
          \A j \in 1 .. MaxJobs :
             (SomeRunFailed /\ QueuedAt(j) # {} /\ jobs[j] # "bad")
                ~> (LaunchedAs(j) # {})

\* ----------------------------------------------------------- C12
\* Where gpu_ids first names device g.
FirstIndex(g) ==
    CHOOSE i \in 1 .. Len(gpu_ids) :
        gpu_ids[i] = g /\ \A k \in 1 .. (i - 1) : gpu_ids[k] # g

\* The device declared n-th, counting each id at its first occurrence.
DeclaredAt(n) ==
    CHOOSE g \in Range(gpu_ids) :
        Cardinality({FirstIndex(d) : d \in
                        {e \in Range(gpu_ids) : FirstIndex(e) <= FirstIndex(g)}}) = n

\* C12: within a pass the slots are visited one after the other in the
\* order gpu_ids declares them; a job leaves the queue only as its head,
\* one at a time, for the slot being visited, which is idle and becomes
\* busy with it; no earlier-declared slot that was idle at its visit has
\* been passed over.  In the first pass the n-th declared device gets the
\* n-th queue entry.
C12_DeclarationOrder ==
    /\ [][/\ (pc = "while" /\ pc' = "for") => slot' = 1
          /\ (pc = "for" /\ pc' = "for" /\ slot' # slot) => slot' = slot + 1
          /\ (pc = "for" /\ pc' = "sleep") => slot = Cardinality(Range(gpu_ids))
          /\ job_queue' # job_queue =>
                /\ pc = "for"
                /\ job_queue' = Tail(job_queue)
                /\ gpu_status[DeclaredAt(slot)] = None
                /\ gpu_status'[DeclaredAt(slot)] # None \/ pc' = "raised"
                /\ pc' # "for" \/ slot' = slot + 1
                /\ \A n \in 1 .. (slot - 1) :
                      gpu_status[DeclaredAt(n)] # None \/ DeclaredAt(n) \in freed
         ]_vars
    /\ [](\A h \in Handles :
            h <= Cardinality(Range(gpu_ids)) =>
               procs[h].gpu = DeclaredAt(h) /\ procs[h].job = h)

\* The ids are declared in other than numeric order and both slots got a
\* job in the first pass, the first declared the first job.
C12_Witness ==
    /\ pc = "sleep"
    /\ Len(gpu_ids) = 2 /\ gpu_ids[1] > gpu_ids[2]
    /\ Len(procs) = 2
    /\ procs[1].gpu = gpu_ids[1] /\ procs[2].gpu = gpu_ids[2]
    /\ Unreaped = {1, 2}

\* ----------------------------------------------------------- C13
\* C13: called with an empty job list, schedule() goes from the loop test
\* straight to the return: it never enters the for loop nor the sleep,
\* launches no process, prepares no run directory and returns an empty
\* failure list.
C13_EmptyJobList ==
    jobs = <<>> =>
        /\ pc \in {"while", "return"}
        /\ procs = <<>>
        /\ run_dirs = pre_dirs
        /\ \A k \in run_dirs : output_log[k] = "old"
        /\ failed_jobs = <<>>
        /\ exc = NoExc

\* schedule() has returned from a call with no jobs and two slots.
C13_Witness ==
    /\ jobs = <<>>
    /\ pc = "return"
    /\ Len(Slots) = 2

\* ----------------------------------------------------------- C18
\* C18 as claimed: at the end of a full pass, before the sleep, no slot is
\* idle while the job queue is non-empty.
C18_NoIdleSlotAtPassEnd ==
    (pc = "sleep" /\ job_queue # <<>>) =>
        \A g \in DOMAIN gpu_status : gpu_status[g] # None

\* C18 as amended: a slot that is idle when visited while the queue is
\* non-empty has the head job popped for it and, unless the launch raises,
\* holds that job's process; at the end of a full pass the only slots idle
\* while the queue is non-empty are those released during that pass.
C18_WorkConservingPerVisit ==
    /\ [][(/\ pc = "for"
           /\ pc' # pc \/ slot' # slot
           /\ gpu_status[Slots[slot]] = None
           /\ job_queue # <<>>)
          => /\ job_queue' = Tail(job_queue)
             /\ \/ pc' = "raised"
                \/ /\ gpu_status'[Slots[slot]] # None
                   /\ procs'[gpu_status'[Slots[slot]]].job = job_queue[1].job
         ]_vars
    /\ []((pc = "sleep" /\ job_queue # <<>>) =>
            \A g \in DOMAIN gpu_status : gpu_status[g] = None => g \in freed)

\* The pass is over, a job is still queued, and a slot released in this
\* pass is idle: it waits for the next pass.
C18_Witness ==
    /\ pc = "sleep"
    /\ job_queue # <<>>
    /\ \E g \in DOMAIN gpu_status : gpu_status[g] = None /\ g \in freed

\* ----------------------------------------------------------- C19
\* C19: every failure record is the record of one reaped run: its gpu is
\* the device that run was launched on, its run_dir the directory named
\* after the index the run was given at launch, its cmd the job launched
\* as that run, its exit_code the code the run exited with.
C19_RecordDescribesItsRun ==
    \A i \in DOMAIN failed_jobs :
        \E h \in Handles :
            /\ procs[h].reaped
            /\ failed_jobs[i].run_dir = RunDir(procs[h].run)
            /\ failed_jobs[i].gpu = procs[h].gpu
            /\ failed_jobs[i].cmd.job = procs[h].job
            /\ failed_jobs[i].cmd.cmd = jobs[procs[h].job]
            /\ failed_jobs[i].exit_code = procs[h].returncode
            /\ procs[h].returncode # 0

\* A run has failed on a slot that now runs a later job, while another
\* slot was busy all along.
C19_Witness ==
    /\ Len(failed_jobs) = 1
    /\ Len(procs) = 3
    /\ failed_jobs[1].run_dir = RunDir(1)
    /\ gpu_status[failed_jobs[1].gpu] = 3
    /\ 2 \in Unreaped

\* ----------------------------------------------------------- C20
\* C20: the h-th process launched runs the h-th job of the input list as
\* run h, in run_<h>; the queue is always the not yet dispatched tail of
\* the input list, in input order; the input list itself never changes.
C20_InputOrder ==
    /\ [][jobs' = jobs]_vars
    /\ [](/\ \A h \in Handles :
               /\ procs[h].job = h
               /\ procs[h].run = h
               /\ procs[h].run_dir = RunDir(h)
               /\ procs[h].cmd = jobs[h]
          /\ \A i \in DOMAIN job_queue :
               /\ job_queue[i].job = Len(jobs) - Len(job_queue) + i
               /\ job_queue[i].cmd = jobs[job_queue[i].job])

\* Runs finish out of order on two slots: run 2 is reaped and run 3
\* launched while run 1 is still on its slot.
C20_Witness ==
    /\ Len(procs) = 3
    /\ Len(Slots) = 2
    /\ procs[2].reaped
    /\ Unreaped = {1, 3}

\* ----------------------------------------------------------- C14
\* C14: in a dry run no sweep directory, sweep.json or run directory is
\* created, no process is launched and schedule() is not called; main()
\* ends right after printing the command list, and only a dry run ends
\* there.
C14_DryRunHasNoEffect ==
    /\ args.dry_run =>
          /\ ~sweep_dir
          /\ sweep_json = <<>>
          /\ sched_call = <<>>
          /\ run_dirs = {}
          /\ procs = <<>>
          /\ mpc \in {"generate", "raised", "print", "end"}
    /\ mpc = "end" => args.dry_run /\ stdout = job_cmds

\* A dry run has printed its four commands and ended.
C14_Witness ==
    /\ args.dry_run
    /\ mpc = "end"
    /\ Len(stdout) = 4

\* ----------------------------------------------------------- C15
\* The argument string has no "=".
NoEquals(arg) == \A i \in 1 .. Len(arg) : arg[i] # "="

\* Nothing follows the "=" of the argument string.
EmptyValueList(arg) == arg # <<>> /\ arg[Len(arg)] = "="

\* C15: when an argument string has no "=" or an empty value list, main()
\* does not get past generate_cmd_combinations(): no command list, no
\* sweep directory, no call of schedule().
C15_MalformedSpecIsFatal ==
    (\E i \in 1 .. Len(args.args) :
        NoEquals(args.args[i]) \/ EmptyValueList(args.args[i]))
    => /\ mpc \in {"generate", "raised"}
       /\ job_cmds = <<>>
       /\ stdout = <<>>
       /\ ~sweep_dir
       /\ sched_call = <<>>

\* ----------------------------------------------------------- C16
\* The command list has been generated.
Generated == mpc \notin {"none", "generate", "raised"}

\* n_(j+1) * ... * n_k for the k value lists of arg_dict
RECURSIVE Weight(_)
Weight(j) ==
    IF j >= Len(arg_dict) THEN 1
    ELSE Len(arg_dict[j + 1].values) * Weight(j + 1)

\* The value of the j-th key in the c-th tuple of the product, the last
\* key varying fastest.
ChosenValue(c, j) ==
    arg_dict[j].values[(((c - 1) \div Weight(j)) % Len(arg_dict[j].values)) + 1]

\* The tokens of keys 1 .. j in the c-th command.
RECURSIVE TokensUpTo(_, _)
TokensUpTo(c, j) ==
    IF j = 0 THEN <<>>
    ELSE TokensUpTo(c, j - 1) \o FlagTokens(arg_dict[j].key, ChosenValue(c, j))

\* The key of a well-formed argument string: what precedes its "=".
KeyOf(arg) == Split(arg, "=")[1]

\* The first argument string that names the key.
FirstArgOf(key) ==
    CHOOSE i \in 1 .. Len(args.args) :
        KeyOf(args.args[i]) = key /\ \A l \in 1 .. (i - 1) : KeyOf(args.args[l]) # key

\* C16 as claimed: n1*...*nk commands, each a distinct combination.
C16_DistinctCombinations ==
    Generated =>
        /\ Len(job_cmds) = Weight(0)
        /\ \A c1, c2 \in 1 .. Len(job_cmds) : c1 # c2 => job_cmds[c1] # job_cmds[c2]

\* C16 as amended: the keys are the distinct keys of the argument strings
\* in input order; there are n1*...*nk commands, the c-th being python,
\* the script and the flags of the c-th tuple of value positions in
\* product order (last key fastest), flags in key order.
C16_ProductOrder ==
    Generated =>
        /\ \A i, j \in 1 .. Len(arg_dict) :
              i < j => FirstArgOf(arg_dict[i].key) < FirstArgOf(arg_dict[j].key)
        /\ {arg_dict[j].key : j \in 1 .. Len(arg_dict)}
              = {KeyOf(args.args[i]) : i \in 1 .. Len(args.args)}
        /\ Len(job_cmds) = Weight(0)
        /\ \A c \in 1 .. Len(job_cmds) :
              job_cmds[c] = << <<"python">>, args.script >>
                               \o TokensUpTo(c, Len(arg_dict))

\* Two keys with two values each: four commands, the first two differing
\* in the last key's flag only.
C16_Witness ==
    /\ mpc = "print"
    /\ Len(arg_dict) = 2
    /\ Len(job_cmds) = 4
    /\ job_cmds[1] # job_cmds[2]
    /\ arg_dict[1].values[1] # arg_dict[1].values[2]
    /\ arg_dict[2].values[1] # arg_dict[2].values[2]

\* ----------------------------------------------------------- C17
\* The spellings of true and false among the values of the model.
TrueSpellings == {<<"true">>, <<"TRUE">>}
FalseSpellings == {<<"false">>, <<"False">>}

\* How many tokens a value contributes: the flag alone, or flag and value.
Width(value) == IF value \in TrueSpellings \cup FalseSpellings THEN 1 ELSE 2

RECURSIVE Offset(_, _)
Offset(c, j) ==
    IF j = 1 THEN 2 ELSE Offset(c, j - 1) + Width(ChosenValue(c, j - 1))

\* C17: in every command, a key whose chosen value spells true gives the
\* single token --key, one whose value spells false the single token
\* --no-key, any other value the two tokens --key and the value; the
\* command holds nothing else after python and the script.
C17_BooleanFlags ==
    Generated =>
        \A c \in 1 .. Len(job_cmds) :
            /\ Len(job_cmds[c]) = Offset(c, Len(arg_dict) + 1)
            /\ \A j \in 1 .. Len(arg_dict) :
                  LET v == ChosenValue(c, j)
                      at == Offset(c, j)
                      key == arg_dict[j].key
                  IN  /\ v \in TrueSpellings =>
                            job_cmds[c][at + 1] = <<"--">> \o key
                      /\ v \in FalseSpellings =>
                            job_cmds[c][at + 1] = <<"--no-">> \o key
                      /\ v \notin TrueSpellings \cup FalseSpellings =>
                            /\ job_cmds[c][at + 1] = <<"--">> \o key
                            /\ job_cmds[c][at + 2] = v

\* One command holds a presence flag from TRUE and a negated flag from
\* False, and so has four tokens.
C17_Witness ==
    /\ Generated
    /\ Len(arg_dict) = 2
    /\ \E c \in 1 .. Len(job_cmds) :
          /\ ChosenValue(c, 1) = <<"TRUE">>
          /\ ChosenValue(c, 2) = <<"False">>
          /\ Len(job_cmds[c]) = 4

====
